---- MODULE Spec2Model ----
(***************************************************************************)
(* Model of DFpong_controller_Folding_Pocket.ino: two light sensors are    *)
(* read on a fixed cadence, each channel is smoothed by a rolling average  *)
(* over a circular buffer with a running sum, and the smoothed pair is     *)
(* classified into a movement code (0 neutral, 1 up, 2 down) that the main *)
(* loop hands to the BLE transport and to the buzzer on every pass.        *)
(***************************************************************************)
EXTENDS Integers, Sequences, FiniteSets

(***************************************************************************)
(* Program constants.                                                      *)
(***************************************************************************)
lightAverageWindow == 10
equalityThreshold == 50
lightReadInterval == 50

\* unsigned long is 32 bits wide.  A value is held as the pair
\* << high half-word, low half-word >>, each half in 0 .. HalfWord - 1, and
\* stands for high * HalfWord + low; arithmetic on it is modulo 2^32.
HalfWord == 65536

\* int and long are 32 bits wide: both hold LongMin .. LongMax.
LongMax == 2147483647
LongMin == (-LongMax) - 1

\* analogRead() returns a 10-bit conversion result, 0 .. AdcMax.
AdcMax == 1023

(***************************************************************************)
(* Bounds of the model.                                                    *)
(***************************************************************************)
\* serviced readings in one run
MaxTicks == 12
\* loop passes in one run that find the read interval not yet elapsed
MaxIdle == 2
\* times the pair of raw readings differs from the pair read just before
MaxChanges == 1
\* serviced readings in one run that is fed raw values from the whole of int
MaxWideTicks == 11

Slots == 0 .. (lightAverageWindow - 1)

VARIABLES
    pc,                 \* position of the sketch: setup() or a call of loop()
    clock,              \* the latest value millis() returned
    currentMovement,
    lightValue1,
    lightValue2,
    smoothedLight1,
    smoothedLight2,
    lastLightReadTime,
    lightReadings1,
    lightReadings2,
    lightReadIndex,
    lightTotalValue1,
    lightTotalValue2,
    sent,               \* codes passed to sendMovement() in this pass
    buzzed,             \* codes passed to updateBuzzer() in this pass
    serviced,           \* history: the latest handleInput() took a reading
    passes,             \* history: calls of handleInput() so far
    ticks,              \* history: calls of handleInput() that took a reading
    spaced,             \* history: every call came lightReadInterval after the one before
    hist1,              \* history: the values inserted for sensor 1, oldest first
    hist2               \* history: the values inserted for sensor 2, oldest first

filterVars ==
    << lightReadings1, lightReadings2, lightReadIndex,
       lightTotalValue1, lightTotalValue2, smoothedLight1, smoothedLight2 >>

classifierVars ==
    << filterVars, lightValue1, lightValue2, lastLightReadTime, currentMovement >>

outputVars == << sent, buzzed >>

historyVars == << serviced, passes, ticks, spaced, hist1, hist2 >>

vars == << pc, clock, classifierVars, outputVars, historyVars >>

(***************************************************************************)
(* C arithmetic.                                                           *)
(***************************************************************************)
\* abs() of the Arduino core
Abs(x) == IF x < 0 THEN -x ELSE x

\* integer division of C: the quotient is truncated toward zero
CDiv(a, b) ==
    IF a >= 0 \/ a % b = 0 THEN a \div b ELSE (a \div b) + 1

\* a - b on long leaves the range of long (undefined behaviour in C++)
LongSubOverflows(a, b) ==
    \/ (b < 0 /\ a > LongMax + b)
    \/ (b > 0 /\ a < LongMin + b)

\* a + b on long leaves the range of long (undefined behaviour in C++)
LongAddOverflows(a, b) ==
    \/ (b > 0 /\ a > LongMax - b)
    \/ (b < 0 /\ a < LongMin - b)

\* what the two's-complement subtract instruction leaves when a - b overflows:
\* the difference modulo 2^32, computed without leaving the 32-bit range
LongSubWrapped(a, b) ==
    IF b < 0
    THEN ((a - LongMax) - 1) - ((b + LongMax) + 1)
    ELSE ((a + LongMax) + 1) - ((b - LongMax) - 1)

\* what the two's-complement add instruction leaves when a + b overflows
LongAddWrapped(a, b) ==
    IF b > 0
    THEN ((a - LongMax) - 1) + ((b - LongMax) - 1)
    ELSE ((a + LongMax) + 1) + ((b + LongMax) + 1)

\* The values a signed overflow may leave: the language leaves the result
\* undefined; the add and subtract instructions wrap, and the upper end of
\* the range stands for any other value a build could leave.
OverflowOutcomes(wrapped) == { wrapped, LongMax }

LongSubOutcomes(a, b) ==
    IF LongSubOverflows(a, b) THEN OverflowOutcomes(LongSubWrapped(a, b)) ELSE { a - b }

LongAddOutcomes(a, b) ==
    IF LongAddOverflows(a, b) THEN OverflowOutcomes(LongAddWrapped(a, b)) ELSE { a + b }

ULongValues == (0 .. (HalfWord - 1)) \X (0 .. (HalfWord - 1))

\* conversion of a small non-negative int to unsigned long
ToULong(n) == << n \div HalfWord, n % HalfWord >>

\* a - b on unsigned long: the difference modulo 2^32
ULongSub(a, b) ==
    LET low == a[2] - b[2]
        borrow == IF low < 0 THEN 1 ELSE 0
    IN  << (a[1] - b[1] - borrow) % HalfWord, low % HalfWord >>

\* a + b on unsigned long: the sum modulo 2^32
ULongAdd(a, b) ==
    LET low == a[2] + b[2]
        carry == low \div HalfWord
    IN  << (a[1] + b[1] + carry) % HalfWord, low % HalfWord >>

\* a >= b on unsigned long
ULongGeq(a, b) == a[1] > b[1] \/ (a[1] = b[1] /\ a[2] >= b[2])

\* a < b on unsigned long
ULongLess(a, b) == ~ULongGeq(a, b)

(***************************************************************************)
(* Inputs of the environment.                                              *)
(***************************************************************************)
\* The raw pairs (sensor 1, sensor 2) the two analogRead() calls may deliver.
SamplePairs ==
    { <<1000, 200>>, <<550, 600>>, <<600, 600>>, <<0, 510>>, <<1023, 1023>> }

\* Raw pairs at and near the ends of the range of int, for a caller that
\* hands updateLightAverage() values other than conversion results.
WidePairs == { << LongMax, LongMin >>, << LongMin, LongMax >> }

\* The raw pair of a run in which the light does not change.
LivePairs == { << 1000, 200 >> }

\* Steps of millis() between two readings in a run of unbounded length: none
\* (two passes in the same millisecond) or 2^30 ms, a quarter of the range of
\* the counter, so that the counter wraps around on every fourth step.
LiveSteps == { ToULong(0), << HalfWord \div 4, 0 >> }

\* Milliseconds that may elapse between two consecutive millis() readings.
ClockSteps == { ToULong(25), ToULong(50) }

\* Milliseconds between boot and the first millis() reading in handleInput()
\* (setup() runs first); the last one puts the first reading 75 ms before the
\* millisecond counter wraps around to 0.
BootDelays ==
    { ToULong(25), ToULong(50), << HalfWord - 1, HalfWord - 75 >> }

(***************************************************************************)
(* Helpers over buffers and histories.                                     *)
(***************************************************************************)
RECURSIVE SumUpTo(_, _)
\* readings[0] + ... + readings[n - 1]
SumUpTo(readings, n) ==
    IF n = 0 THEN 0 ELSE readings[n - 1] + SumUpTo(readings, n - 1)

SumReadings(readings) == SumUpTo(readings, lightAverageWindow)

RECURSIVE SumSeq(_)
SumSeq(s) == IF s = << >> THEN 0 ELSE Head(s) + SumSeq(Tail(s))

\* the last n entries of s (all of s when it is shorter)
LastN(s, n) ==
    IF Len(s) <= n THEN s ELSE SubSeq(s, Len(s) - n + 1, Len(s))

\* number of positions at which the inserted pair differs from the one before
Changes(h1, h2) ==
    Cardinality({ i \in 1 .. (Len(h1) - 1) :
                    << h1[i], h2[i] >> # << h1[i + 1], h2[i + 1] >> })

(***************************************************************************)
(* The rolling average (updateLightAverage) and the classification.        *)
(***************************************************************************)
ZeroReadings == [i \in Slots |-> 0]

NewTotalKeepsOldest(total, oldest, newValue) == total + newValue

\* the running sum after the reading in the cursor slot is replaced
NewTotal(total, oldest, newValue) == (total - oldest) + newValue

\* the values the running sum may hold after the two statements: NewTotal
\* when neither the subtraction nor the addition overflows
NewTotalOutcomes(total, oldest, newValue) ==
    IF LongSubOverflows(total, oldest)
    THEN UNION { LongAddOutcomes(t, newValue) :
                   t \in OverflowOutcomes(LongSubWrapped(total, oldest)) }
    ELSE IF LongAddOverflows(total - oldest, newValue)
    THEN OverflowOutcomes(LongAddWrapped(total - oldest, newValue))
    ELSE { NewTotal(total, oldest, newValue) }

StoreAtNextSlot(readings, index, newValue) ==
    [readings EXCEPT ![(index + 1) % lightAverageWindow] = newValue]

StoreReading(readings, index, newValue) ==
    [readings EXCEPT ![index] = newValue]

NextIndexByTwo(index) == (index + 2) % lightAverageWindow

NextIndexShortCycle(index) == (index + 1) % (lightAverageWindow - 1)

NextIndex(index) == (index + 1) % lightAverageWindow

SmoothedRounded(total) ==
    CDiv(total + (lightAverageWindow \div 2), lightAverageWindow)

Smoothed(total) == CDiv(total, lightAverageWindow)

MovementSticky(smoothed1, smoothed2) ==
    LET difference == Abs(smoothed1 - smoothed2)
    IN  IF difference <= equalityThreshold THEN currentMovement
        ELSE IF smoothed1 > smoothed2 THEN 1
        ELSE 2

MovementThirdCode(smoothed1, smoothed2) ==
    LET difference == Abs(smoothed1 - smoothed2)
    IN  IF difference <= equalityThreshold THEN 0
        ELSE IF smoothed1 > smoothed2 THEN 1
        ELSE 3

MovementStrictBand(smoothed1, smoothed2) ==
    LET difference == Abs(smoothed1 - smoothed2)
    IN  IF difference < equalityThreshold THEN 0
        ELSE IF smoothed1 > smoothed2 THEN 1
        ELSE 2

MovementInvertedBand(smoothed1, smoothed2) ==
    LET difference == Abs(smoothed1 - smoothed2)
    IN  IF difference >= equalityThreshold THEN 0
        ELSE IF smoothed1 > smoothed2 THEN 1
        ELSE 2

MovementSwapped(smoothed1, smoothed2) ==
    LET difference == Abs(smoothed1 - smoothed2)
    IN  IF difference <= equalityThreshold THEN 0
        ELSE IF smoothed1 < smoothed2 THEN 1
        ELSE 2

Movement(smoothed1, smoothed2) ==
    LET difference == Abs(smoothed1 - smoothed2)
    IN  IF difference <= equalityThreshold THEN 0
        ELSE IF smoothed1 > smoothed2 THEN 1
        ELSE 2

IntervalElapsedDeadline(currentTime, lastTime) ==
    ULongGeq(currentTime, ULongAdd(lastTime, ToULong(lightReadInterval)))

IntervalElapsedAbsolute(currentTime, lastTime) ==
    ULongGeq(currentTime, ToULong(lightReadInterval))

IntervalElapsed(currentTime, lastTime) ==
    ULongGeq(ULongSub(currentTime, lastTime), ToULong(lightReadInterval))

ReadTimeKept(currentTime, lastTime) == lastTime

ReadTimeAfterReading(currentTime, lastTime) == currentTime

(***************************************************************************)
(* Initial state: the globals as the C++ runtime initialises them.         *)
(***************************************************************************)
Init ==
    /\ pc = "setup"
    /\ clock = ToULong(0)
    /\ currentMovement = 0
    /\ lightValue1 = 0
    /\ lightValue2 = 0
    /\ smoothedLight1 = 0
    /\ smoothedLight2 = 0
    /\ lastLightReadTime = ToULong(0)
    /\ lightReadings1 = ZeroReadings
    /\ lightReadings2 = ZeroReadings
    /\ lightReadIndex = 0
    /\ lightTotalValue1 = 0
    /\ lightTotalValue2 = 0
    /\ sent = << >>
    /\ buzzed = << >>
    /\ serviced = FALSE
    /\ passes = 0
    /\ ticks = 0
    /\ spaced = TRUE
    /\ hist1 = << >>
    /\ hist2 = << >>

(***************************************************************************)
(* setup(): initializeLightAverage(), then pin, buzzer and BLE set-up.     *)
(***************************************************************************)
initializeLightAverage ==
    /\ lightReadings1' = ZeroReadings
    /\ lightReadings2' = ZeroReadings
    /\ lightTotalValue1' = 0
    /\ lightTotalValue2' = 0
    /\ lightReadIndex' = 0

Setup ==
    /\ pc = "setup"
    /\ initializeLightAverage
    /\ pc' = "updateBLE"
    /\ UNCHANGED << clock, smoothedLight1, smoothedLight2, lightValue1, lightValue2,
                    lastLightReadTime, currentMovement, outputVars, historyVars >>

(***************************************************************************)
(* loop(): updateBLE(); handleInput(); sendMovement(); updateBuzzer().     *)
(***************************************************************************)
UpdateBLE ==
    /\ pc = "updateBLE"
    /\ pc' = "handleInput"
    /\ sent' = << >>
    /\ buzzed' = << >>
    /\ UNCHANGED << clock, classifierVars, historyVars >>

updateLightAverageCrossed(newValue1, newValue2) ==
    /\ lightTotalValue1' \in
           NewTotalOutcomes(lightTotalValue1, lightReadings1[lightReadIndex], newValue1)
    /\ lightReadings1' = StoreReading(lightReadings1, lightReadIndex, newValue1)
    /\ lightTotalValue2' \in
           NewTotalOutcomes(lightTotalValue2, lightReadings1[lightReadIndex], newValue2)
    /\ lightReadings2' = StoreReading(lightReadings2, lightReadIndex, newValue2)
    /\ lightReadIndex' = NextIndex(lightReadIndex)
    /\ smoothedLight1' = Smoothed(lightTotalValue1')
    /\ smoothedLight2' = Smoothed(lightTotalValue2')

\* updateLightAverage(newValue1, newValue2)
updateLightAverage(newValue1, newValue2) ==
    /\ lightTotalValue1' \in
           NewTotalOutcomes(lightTotalValue1, lightReadings1[lightReadIndex], newValue1)
    /\ lightReadings1' = StoreReading(lightReadings1, lightReadIndex, newValue1)
    /\ lightTotalValue2' \in
           NewTotalOutcomes(lightTotalValue2, lightReadings2[lightReadIndex], newValue2)
    /\ lightReadings2' = StoreReading(lightReadings2, lightReadIndex, newValue2)
    /\ lightReadIndex' = NextIndex(lightReadIndex)
    /\ smoothedLight1' = Smoothed(lightTotalValue1')
    /\ smoothedLight2' = Smoothed(lightTotalValue2')

\* the body of the if in handleInput(): a reading is taken
TakeReading(currentTime, raw1, raw2) ==
    /\ lightValue1' = raw1
    /\ lightValue2' = raw2
    /\ updateLightAverage(raw1, raw2)
    /\ currentMovement' = Movement(smoothedLight1', smoothedLight2')
    /\ lastLightReadTime' = ReadTimeAfterReading(currentTime, lastLightReadTime)

SkipReadingResetsMovement ==
    /\ currentMovement' = 0
    /\ UNCHANGED << filterVars, lightValue1, lightValue2, lastLightReadTime >>

\* handleInput() when the interval has not elapsed: the if has no else
SkipReading == UNCHANGED classifierVars

\* history of a call that takes a reading, within the bounds of the model
RecordReading(elapsed, raw1, raw2, maxTicks, maxChanges) ==
    /\ ticks < maxTicks
    /\ Changes(Append(hist1, raw1), Append(hist2, raw2)) <= maxChanges
    /\ ticks' = ticks + 1
    /\ passes' = passes + 1
    /\ spaced' = (spaced /\ (passes = 0 \/ elapsed = ToULong(lightReadInterval)))
    /\ hist1' = Append(hist1, raw1)
    /\ hist2' = Append(hist2, raw2)

\* history of a call that takes no reading, within the bounds of the model
RecordSkip(elapsed) ==
    /\ passes - ticks < MaxIdle
    /\ passes' = passes + 1
    /\ spaced' = (spaced /\ (passes = 0 \/ elapsed = ToULong(lightReadInterval)))
    /\ UNCHANGED << ticks, hist1, hist2 >>

\* handleInput() when millis() has advanced by one of steps since it was last
\* read and the sensors deliver one of pairs; recorded tells whether the call
\* enters the history variables, and then maxTicks and maxChanges bound them
HandleInputCall(steps, pairs, recorded, maxTicks, maxChanges) ==
    /\ pc = "handleInput"
    /\ \E elapsed \in steps :
         LET currentTime == ULongAdd(clock, elapsed)
         IN  /\ clock' = currentTime
             /\ IF IntervalElapsed(currentTime, lastLightReadTime)
                THEN /\ \E pair \in pairs :
                          /\ TakeReading(currentTime, pair[1], pair[2])
                          /\ IF recorded
                             THEN RecordReading(elapsed, pair[1], pair[2], maxTicks, maxChanges)
                             ELSE UNCHANGED << passes, ticks, spaced, hist1, hist2 >>
                     /\ serviced' = TRUE
                ELSE /\ SkipReading
                     /\ IF recorded
                        THEN RecordSkip(elapsed)
                        ELSE UNCHANGED << passes, ticks, spaced, hist1, hist2 >>
                     /\ serviced' = FALSE
    /\ pc' = "sendMovement"
    /\ UNCHANGED outputVars

HandleInput ==
    HandleInputCall(IF passes = 0 THEN BootDelays ELSE ClockSteps, SamplePairs,
                    TRUE, MaxTicks, MaxChanges)

SendMovementWhenServiced ==
    /\ pc = "sendMovement"
    /\ sent' = IF serviced THEN Append(sent, currentMovement) ELSE sent
    /\ pc' = "updateBuzzer"
    /\ UNCHANGED << clock, classifierVars, buzzed, historyVars >>

SendMovement ==
    /\ pc = "sendMovement"
    /\ sent' = Append(sent, currentMovement)
    /\ pc' = "updateBuzzer"
    /\ UNCHANGED << clock, classifierVars, buzzed, historyVars >>

UpdateBuzzer ==
    /\ pc = "updateBuzzer"
    /\ buzzed' = Append(buzzed, currentMovement)
    /\ pc' = "updateBLE"
    /\ UNCHANGED << clock, classifierVars, sent, historyVars >>

Next ==
    \/ Setup
    \/ UpdateBLE
    \/ HandleInput
    \/ SendMovement
    \/ UpdateBuzzer

Spec == Init /\ [][Next]_vars

(***************************************************************************)
(* The same sketch fed with raw values from the whole range of int.        *)
(***************************************************************************)
HandleInputWide ==
    HandleInputCall(IF passes = 0 THEN BootDelays ELSE ClockSteps, WidePairs,
                    TRUE, MaxWideTicks, MaxChanges)

NextWide ==
    \/ Setup
    \/ UpdateBLE
    \/ HandleInputWide
    \/ SendMovement
    \/ UpdateBuzzer

SpecWide == Init /\ [][NextWide]_vars

(***************************************************************************)
(* The sketch running for ever: calls do not enter the history variables.  *)
(* The loop keeps running (weak fairness of the step of the sketch) and    *)
(* the millisecond counter keeps advancing between passes (strong fairness *)
(* of a call of handleInput() that finds millis() advanced).               *)
(***************************************************************************)
HandleInputLive == HandleInputCall(LiveSteps, LivePairs, FALSE, 0, 0)

HandleInputAdvanced ==
    HandleInputCall(LiveSteps \ { ToULong(0) }, LivePairs, FALSE, 0, 0)

NextLive ==
    \/ Setup
    \/ UpdateBLE
    \/ HandleInputLive
    \/ SendMovement
    \/ UpdateBuzzer

SpecLive ==
    /\ Init
    /\ [][NextLive]_vars
    /\ WF_vars(NextLive)
    /\ SF_vars(HandleInputAdvanced)

(***************************************************************************)
(* Properties.                                                             *)
(***************************************************************************)
AllEqualTo(h, v) == \A i \in 1 .. Len(h) : h[i] = v

IntervalULong == ToULong(lightReadInterval)

\* C1: after a reading is taken the stored movement code is 0 (neutral)
\* exactly when the two smoothed values differ by at most the threshold, 1
\* (up) exactly when sensor 1 exceeds sensor 2 by more than the threshold and
\* 2 (down) exactly when sensor 2 exceeds sensor 1 by more than the threshold.
C1_MovementMatchesDeadBand ==
    serviced =>
        LET d == smoothedLight1 - smoothedLight2
        IN  /\ (currentMovement = 0) <=> (d <= equalityThreshold /\ -d <= equalityThreshold)
            /\ (currentMovement = 1) <=> (d > equalityThreshold)
            /\ (currentMovement = 2) <=> (-d > equalityThreshold)

\* a reading has left the smoothed values 550 and 600, exactly the threshold
\* apart, and the movement is neutral
C1_Witness ==
    /\ serviced
    /\ smoothedLight1 = 550
    /\ smoothedLight2 = 600
    /\ currentMovement = 0

\* C2: in every reachable state each running sum is the exact sum of the
\* entries of its buffer and each buffer holds exactly lightAverageWindow
\* entries.
C2_TotalIsSumOfReadings ==
    /\ DOMAIN lightReadings1 = Slots
    /\ DOMAIN lightReadings2 = Slots
    /\ Cardinality(Slots) = lightAverageWindow
    /\ lightTotalValue1 = SumReadings(lightReadings1)
    /\ lightTotalValue2 = SumReadings(lightReadings2)

\* the buffers have been overwritten past one full cycle, with different
\* contents in the two channels, and a pass without a reading followed
C2_Witness ==
    /\ ticks > lightAverageWindow
    /\ ~serviced
    /\ pc = "sendMovement"
    /\ lightTotalValue1 > lightTotalValue2
    /\ lightTotalValue2 > 0

\* C3: a call of handleInput() whose time is less than the read interval
\* after lastLightReadTime (modulo 2^32) changes nothing of the classifier:
\* buffers, sums, cursor, smoothed values, raw values, lastLightReadTime and
\* movement code stay as they were, and no reading is taken.
C3_GatedCallChangesNothing ==
    [][ ( /\ pc = "handleInput"
          /\ ULongLess(ULongSub(clock', lastLightReadTime), IntervalULong) )
        => ( /\ UNCHANGED classifierVars
             /\ serviced' = FALSE
             /\ ticks' = ticks ) ]_vars

\* a call has just been skipped while the movement held from before is up
C3_Witness ==
    /\ pc = "sendMovement"
    /\ ~serviced
    /\ ticks >= 1
    /\ currentMovement = 1
    /\ ULongLess(ULongSub(clock, lastLightReadTime), IntervalULong)

\* C4 as stated: whenever a call of handleInput() comes less than the read
\* interval after the call before it, it takes no reading and leaves the
\* movement code and both filters unchanged.
C4_AnyCloseCallIsSkipped ==
    [][ ( /\ pc = "handleInput"
          /\ passes >= 1
          /\ ULongLess(ULongSub(clock', clock), IntervalULong) )
        => ( /\ serviced' = FALSE
             /\ UNCHANGED << filterVars, currentMovement >> ) ]_vars

\* C4 amended: whenever a call of handleInput() comes less than the read
\* interval after the call before it and that call took a reading, it takes
\* no reading and leaves the movement code and both filters unchanged.
C4_CloseCallAfterReadingIsSkipped ==
    [][ ( /\ pc = "handleInput"
          /\ passes >= 1
          /\ serviced
          /\ ULongLess(ULongSub(clock', clock), IntervalULong) )
        => ( /\ serviced' = FALSE
             /\ UNCHANGED << filterVars, currentMovement >> ) ]_vars

\* the second of two calls 25 ms apart has been skipped after the first took
\* a reading that moved the paddle
C4_Witness ==
    /\ pc = "sendMovement"
    /\ passes >= 2
    /\ passes - ticks = 1
    /\ ~serviced
    /\ ULongSub(clock, lastLightReadTime) = ToULong(25)
    /\ currentMovement # 0

\* C5: the smoothed value of each channel is the floor of the sum of the
\* buffer's current entries (zero-fill included) divided by the window size.
C5_SmoothedIsFloorOfMean ==
    /\ smoothedLight1 * lightAverageWindow <= SumReadings(lightReadings1)
    /\ SumReadings(lightReadings1) < (smoothedLight1 + 1) * lightAverageWindow
    /\ smoothedLight2 * lightAverageWindow <= SumReadings(lightReadings2)
    /\ SumReadings(lightReadings2) < (smoothedLight2 + 1) * lightAverageWindow

\* a reading was inserted while zero-fill entries remain and the sum of the
\* buffer is no multiple of the window size
C5_Witness ==
    /\ serviced
    /\ ticks < lightAverageWindow
    /\ lightReadings1[lightAverageWindow - 1] = 0
    /\ SumReadings(lightReadings1) % lightAverageWindow >= lightAverageWindow \div 2

\* C6: once more than lightAverageWindow values were inserted, the smoothed
\* value of each channel is a function of the last lightAverageWindow
\* insertions alone (their sum divided by the window size), whatever was
\* inserted before them.
C6_SmoothedDependsOnLastWindow ==
    ticks > lightAverageWindow =>
        /\ smoothedLight1 = SumSeq(LastN(hist1, lightAverageWindow)) \div lightAverageWindow
        /\ smoothedLight2 = SumSeq(LastN(hist2, lightAverageWindow)) \div lightAverageWindow

\* more than a window of values was inserted and one that has left the window
\* differs from the newest
C6_Witness ==
    /\ ticks > lightAverageWindow
    /\ \E i \in 1 .. (Len(hist1) - lightAverageWindow) : hist1[i] # hist1[Len(hist1)]
    /\ \E i \in 1 .. (Len(hist2) - lightAverageWindow) : hist2[i] # hist2[Len(hist2)]

\* C7: after the same value v was inserted lightAverageWindow times into a
\* freshly reset filter, its smoothed output is v.
C7_ConstantInputConverges ==
    ticks = lightAverageWindow =>
        /\ AllEqualTo(hist1, hist1[1]) => smoothedLight1 = hist1[1]
        /\ AllEqualTo(hist2, hist2[1]) => smoothedLight2 = hist2[1]

\* sensor 2 delivered 600 ten times from reset while sensor 1 changed
C7_Witness ==
    /\ ticks = lightAverageWindow
    /\ AllEqualTo(hist2, 600)
    /\ ~AllEqualTo(hist1, hist1[1])
    /\ smoothedLight2 = 600

\* C8 as stated: after ten calls of handleInput() from start, each
\* lightReadInterval after the one before, with every reading 1000 / 200, the
\* smoothed values are 1000 and 200 and the movement is up.
C8_TenSpacedCalls ==
    ( /\ pc = "sendMovement"
      /\ passes = 10
      /\ spaced
      /\ AllEqualTo(hist1, 1000)
      /\ AllEqualTo(hist2, 200) )
    => ( /\ smoothedLight1 = 1000
         /\ smoothedLight2 = 200
         /\ currentMovement = 1 )

\* C8 amended: the same when the first of the ten calls comes at least
\* lightReadInterval after start, so that all ten calls take a reading.
C8_TenSpacedReadings ==
    ( /\ pc = "sendMovement"
      /\ passes = 10
      /\ ticks = 10
      /\ spaced
      /\ AllEqualTo(hist1, 1000)
      /\ AllEqualTo(hist2, 200) )
    => ( /\ smoothedLight1 = 1000
         /\ smoothedLight2 = 200
         /\ currentMovement = 1 )

\* the tenth of ten readings of 1000 / 200 taken 50 ms apart from start
C8_Witness ==
    /\ pc = "sendMovement"
    /\ passes = 10
    /\ ticks = 10
    /\ spaced
    /\ clock = ToULong(500)
    /\ AllEqualTo(hist1, 1000)
    /\ AllEqualTo(hist2, 200)
    /\ currentMovement = 1

\* C9: until the first reading is taken both buffers are zero-filled, both
\* running sums and the cursor are 0 and the movement code is neutral; and
\* the movement code is written by no step other than a call of
\* handleInput() that takes a reading.
C9_NeutralUntilFirstReading ==
    /\ [] ( ticks = 0 =>
              /\ lightReadings1 = [i \in Slots |-> 0]
              /\ lightReadings2 = [i \in Slots |-> 0]
              /\ lightTotalValue1 = 0
              /\ lightTotalValue2 = 0
              /\ lightReadIndex = 0
              /\ currentMovement = 0 )
    /\ [][ currentMovement' # currentMovement
             => (pc = "handleInput" /\ ticks' = ticks + 1 /\ serviced') ]_vars

\* a whole pass of the loop ended without a reading having been taken yet
C9_Witness ==
    /\ ticks = 0
    /\ passes >= 1
    /\ buzzed = << 0 >>
    /\ currentMovement = 0

\* C10: as long as every reading taken since reset delivered the same raw
\* value on both sensors, the movement code is neutral.
C10_EqualReadingsStayNeutral ==
    (\A i \in 1 .. Len(hist1) : hist1[i] = hist2[i]) => currentMovement = 0

\* equal readings of two different levels were taken
C10_Witness ==
    /\ ticks >= 2
    /\ \A i \in 1 .. Len(hist1) : hist1[i] = hist2[i]
    /\ hist1[1] # hist1[Len(hist1)]
    /\ serviced
    /\ currentMovement = 0

\* C11: for raw readings from the whole range of int and any time, also
\* when a running sum overflows, every call of handleInput() ends with the
\* movement code 0, 1 or 2, with the cursor inside the buffers, and with the
\* smoothed values and their difference inside the range of int.
C11_TotalOverIntegers ==
    /\ currentMovement \in { 0, 1, 2 }
    /\ lightReadIndex \in Slots
    /\ lightTotalValue1 \in LongMin .. LongMax
    /\ lightTotalValue2 \in LongMin .. LongMax
    /\ smoothedLight1 \in LongMin .. LongMax
    /\ smoothedLight2 \in LongMin .. LongMax
    /\ smoothedLight1 - smoothedLight2 \in (-LongMax) .. LongMax
    /\ (pc = "sendMovement" /\ serviced) =>
           /\ lightReadings1[(lightReadIndex + lightAverageWindow - 1) % lightAverageWindow]
                  = lightValue1
           /\ lightReadings2[(lightReadIndex + lightAverageWindow - 1) % lightAverageWindow]
                  = lightValue2

\* a reading of the largest int has just been added to a running sum that
\* already held the largest int, the sum has wrapped around, and the movement
\* code is down
C11_Witness ==
    /\ pc = "sendMovement"
    /\ serviced
    /\ ticks >= 2
    /\ lightValue1 = LongMin
    /\ lightValue2 = LongMax
    /\ hist2[Len(hist2) - 1] = LongMax
    /\ lightTotalValue2 < 0
    /\ currentMovement = 2

\* C12: in every pass of loop(), whether or not handleInput() took a
\* reading, sendMovement() and updateBuzzer() are each called exactly once,
\* after handleInput(), with the movement code held at that time.
C12_OutputsOncePerPass ==
    /\ pc \in { "handleInput", "sendMovement" } => (sent = << >> /\ buzzed = << >>)
    /\ pc = "updateBuzzer" => (sent = << currentMovement >> /\ buzzed = << >>)
    /\ (pc = "updateBLE" /\ passes >= 1) =>
           (sent = << currentMovement >> /\ buzzed = << currentMovement >>)

\* a pass without a reading has ended and handed on the code down held from
\* before
C12_Witness ==
    /\ pc = "updateBLE"
    /\ ~serviced
    /\ ticks >= 1
    /\ currentMovement = 2
    /\ sent = << 2 >>
    /\ buzzed = << 2 >>

\* the last lightAverageWindow values inserted, oldest first, padded at the
\* old end with the zeros of the reset
WindowOf(h) ==
    LastN([i \in 1 .. lightAverageWindow |-> 0] \o h, lightAverageWindow)

\* C13: each buffer read circularly from the cursor holds, oldest first, the
\* raw values of the last lightAverageWindow readings taken (zeros where
\* fewer were taken); calls that take no reading put nothing into it.
C13_BufferIsLastWindow ==
    \A k \in Slots :
        /\ lightReadings1[(lightReadIndex + k) % lightAverageWindow] = WindowOf(hist1)[k + 1]
        /\ lightReadings2[(lightReadIndex + k) % lightAverageWindow] = WindowOf(hist2)[k + 1]

\* the cursor has wrapped, the window holds two different values of sensor 1
\* and a call without a reading came last
C13_Witness ==
    /\ ticks > lightAverageWindow
    /\ lightReadIndex # 0
    /\ ~serviced
    /\ pc = "sendMovement"
    /\ lightReadings1[lightReadIndex] # lightReadings1[lightReadIndex - 1]

\* the movement code of the dead band for two smoothed values
BandCode(s1, s2) ==
    IF s1 - s2 > equalityThreshold THEN 1
    ELSE IF s2 - s1 > equalityThreshold THEN 2
    ELSE 0

\* the smoothed value a filter with these buffer contents returns for raw
MeanAfter(readings, raw) ==
    ((SumReadings(readings) - readings[lightReadIndex]) + raw) \div lightAverageWindow

\* C14: the movement code stored by a call that takes a reading is a function
\* of the filter contents before the call and of the two raw values alone,
\* not of the code held before; and no other step changes the code.
C14_MovementIsMemoryless ==
    [][ /\ (ticks' = ticks + 1) =>
               currentMovement' = BandCode(MeanAfter(lightReadings1, lightValue1'),
                                           MeanAfter(lightReadings2, lightValue2'))
        /\ (currentMovement' # currentMovement) => (ticks' = ticks + 1)
      ]_vars

\* a reading has turned the code to neutral after the first reading had set
\* it to up
C14_Witness ==
    /\ serviced
    /\ ticks >= 2
    /\ hist1[1] = 1000
    /\ hist1[Len(hist1)] # 1000
    /\ currentMovement = 0

\* C15: a call that takes a reading sets lastLightReadTime to its own time
\* and stores the code of the new smoothed values, and that time is at least the read interval (modulo 2^32) after the time
\* of the reading before it.
C15_ReadingsAreSpaced ==
    [][ (ticks' = ticks + 1) =>
            /\ lastLightReadTime' = clock'
            /\ currentMovement' = BandCode(smoothedLight1', smoothedLight2')
            /\ serviced'
            /\ (ticks >= 1) =>
                   ULongGeq(ULongSub(clock', lastLightReadTime), IntervalULong)
      ]_vars

\* a reading was taken 75 ms after the one before, a skipped call between
C15_Witness ==
    /\ serviced
    /\ ticks >= 2
    /\ passes > ticks
    /\ ~spaced
    /\ lastLightReadTime = clock
    /\ clock = ToULong(125)

\* C16: after lightAverageWindow readings in a row with the same raw pair
\* (l, r), whatever was read before them, the smoothed values are l and r and
\* the movement code is the dead-band code of (l, r).
C16_ConstantWindowSettles ==
    ( /\ ticks >= lightAverageWindow
      /\ AllEqualTo(LastN(hist1, lightAverageWindow), lightValue1)
      /\ AllEqualTo(LastN(hist2, lightAverageWindow), lightValue2) )
    => ( /\ smoothedLight1 = lightValue1
         /\ smoothedLight2 = lightValue2
         /\ currentMovement = BandCode(lightValue1, lightValue2) )

\* ten readings of 0 / 510 in a row followed readings of another pair and
\* the code has settled on down
C16_Witness ==
    /\ ticks > lightAverageWindow
    /\ AllEqualTo(LastN(hist1, lightAverageWindow), 0)
    /\ AllEqualTo(LastN(hist2, lightAverageWindow), 510)
    /\ hist2[1] # 510
    /\ smoothedLight2 = 510
    /\ currentMovement = 2

\* C17: when the loop keeps running and the millisecond counter keeps
\* advancing, a reading is taken infinitely often, and infinitely often by a
\* call that finds the counter wrapped around to 0.
C17_ReadingsRecur ==
    /\ []<>(pc = "sendMovement" /\ serviced)
    /\ []<>(pc = "sendMovement" /\ serviced /\ clock = ToULong(0))

\* a reading has been taken by the call that found the counter wrapped to 0
C17_Witness ==
    /\ pc = "sendMovement"
    /\ serviced
    /\ clock = ToULong(0)
    /\ lastLightReadTime = ToULong(0)
    /\ lightReadIndex = 4

\* C18: with raw values in 0 .. AdcMax each running sum stays in
\* 0 .. lightAverageWindow * AdcMax, also between the subtraction and the
\* addition of updateLightAverage(), each smoothed value stays in
\* 0 .. AdcMax, and all of these and the smoothed difference lie within
\* -32767 .. 32767, the range of a 16-bit int.
C18_NoOverflow ==
    /\ lightAverageWindow * AdcMax <= 32767
    /\ lightTotalValue1 \in 0 .. (lightAverageWindow * AdcMax)
    /\ lightTotalValue2 \in 0 .. (lightAverageWindow * AdcMax)
    /\ lightTotalValue1 - lightReadings1[lightReadIndex] \in 0 .. (lightAverageWindow * AdcMax)
    /\ lightTotalValue2 - lightReadings2[lightReadIndex] \in 0 .. (lightAverageWindow * AdcMax)
    /\ smoothedLight1 \in 0 .. AdcMax
    /\ smoothedLight2 \in 0 .. AdcMax
    /\ smoothedLight1 - smoothedLight2 \in (-AdcMax) .. AdcMax
    /\ lightValue1 \in 0 .. AdcMax
    /\ lightValue2 \in 0 .. AdcMax

\* both buffers are full of the largest conversion result
C18_Witness ==
    /\ ticks > lightAverageWindow
    /\ lightTotalValue1 = lightAverageWindow * AdcMax
    /\ lightTotalValue2 = lightAverageWindow * AdcMax
    /\ smoothedLight1 = AdcMax

\* C19: the cursor is always an index of the buffers, equals the number of
\* readings taken since reset modulo lightAverageWindow, and a call that
\* takes a reading writes the slot under the cursor, and no other slot, in
\* both buffers.
C19_CursorCountsReadings ==
    /\ [] ( /\ lightReadIndex \in Slots
            /\ lightReadIndex = ticks % lightAverageWindow )
    /\ [][ (ticks' = ticks + 1) =>
              /\ lightReadings1' = [lightReadings1 EXCEPT ![lightReadIndex] = lightValue1']
              /\ lightReadings2' = [lightReadings2 EXCEPT ![lightReadIndex] = lightValue2']
         ]_vars

\* the eleventh reading has been written into slot 0 of both buffers
C19_Witness ==
    /\ serviced
    /\ ticks = lightAverageWindow + 1
    /\ lightReadIndex = 1
    /\ lightReadings1[0] = lightValue1
    /\ lightReadings2[0] = lightValue2
    /\ lightReadings1[0] # lightReadings1[1]

====
